---- MODULE Spec2Model ----
(***************************************************************************)
(* Model of the limit order book of orderbook-api-rs: the matching engine  *)
(* OrderBook (src/src/order_book.rs) with its two ordered side collections *)
(* (BTreeSet<Rc<Order>>) and its two id indices (HashMap<Uuid, Rc<Order>>). *)
(*                                                                         *)
(* A BTreeSet is modelled as the sequence of its elements in iteration     *)
(* order; a lookup walks that sequence with the comparator, as the search  *)
(* in a single leaf node of the B-tree does (a set of at most 11 elements  *)
(* is one leaf).  A HashMap is modelled as a function on the set of its    *)
(* keys.  Uuid::new_v4() is modelled as a supply of fresh ids, Utc::now()  *)
(* as a free choice of a wall clock value.                                 *)
(***************************************************************************)
EXTENDS Integers, Sequences, FiniteSets

\* Number of orders that can be created (supply of fresh ids).
MaxOrders == 3
\* Wall clock values Utc::now() can return.
MaxTs == 2
\* Largest price of a command.
MaxPrice == 2
\* Largest quantity of a command.
MaxQty == 2

Ids == 1..MaxOrders
Timestamps == 1..MaxTs
Prices == 1..MaxPrice
Quantities == 1..MaxQty

\* Calls of Client::call made in a run.
MaxCalls == 2
\* The channel_buffer of actor::build.
ChannelBuffer == 2

Calls == 1..MaxCalls

VARIABLES
    ts,          \* OrderBook.ts, the watermark of the last mutating command
    sell_book,   \* OrderBook.sell_book, in iteration order
    sell_index,  \* OrderBook.sell_index
    buy_book,    \* OrderBook.buy_book, in iteration order
    buy_index,   \* OrderBook.buy_index
    next_id,     \* the next id Uuid::new_v4() hands out
    command,     \* the command of the last call of process
    events,      \* the batch the last call of process returned
    matched_from, \* history: for each Filled event of that batch, in order,
                 \* the opposite collection as the match found it
    panicked,    \* TRUE once process has panicked
    cancelled,   \* history: the ids of the orders that Cancel commands have
                 \* removed from a collection, in the order of the commands
    queue,       \* the mpsc channel: the requests sent and not yet received
    request,     \* Actor::run: the request received last
    actor,       \* Actor::run: where the loop stands
    callback,    \* for each call, the oneshot channel of its reply
    rows,        \* the rows of table orderbook_event
    committed,   \* history: the calls whose batch save_events has saved
    calls,       \* the number of calls of Client::call so far
    http_server  \* main: where the future of the HTTP server stands

book_vars == <<ts, sell_book, sell_index, buy_book, buy_index, next_id, command,
               events, matched_from, panicked, cancelled>>

actor_vars ==
    <<queue, request, actor, callback, rows, committed, calls, http_server>>

vars == <<ts, sell_book, sell_index, buy_book, buy_index, next_id, command,
          events, matched_from, panicked, cancelled, queue, request, actor,
          callback, rows, committed, calls, http_server>>

----------------------------------------------------------------------------
(* Orders and events *)

Order(order_type, id, t, quantity, price) ==
    [order_type |-> order_type, id |-> id, ts |-> t, quantity |-> quantity,
     price |-> price]

Accepted(t, order) == [type |-> "Accepted", ts |-> t, order |-> order]

Filled(t, order, counterpart) ==
    [type |-> "Filled", ts |-> t, order |-> order, counterpart |-> counterpart]

Canceled(t, order) == [type |-> "Canceled", ts |-> t, order |-> order]

Rejected(t, id) == [type |-> "Rejected", ts |-> t, reason |-> id]

State(buy, sell) == [type |-> "State", state |-> [buy |-> buy, sell |-> sell]]

\* OrderBookState::new: both side collections copied in iteration order.
\* A snapshot with the two sides exchanged.
OrderBookStateSwapped(buy, sell) == State(sell, buy)

OrderBookState(buy, sell) == State(buy, sell)

----------------------------------------------------------------------------
(* impl Ord for Order *)

CmpScalar(a, b) == IF a < b THEN "Less" ELSE IF a > b THEN "Greater" ELSE "Equal"

Reverse(ord) ==
    IF ord = "Less" THEN "Greater" ELSE IF ord = "Greater" THEN "Less" ELSE "Equal"

\* Order::cmp with the timestamps of equal prices compared latest first.
CmpLatestFirst(self, other) ==
    LET byPrice == IF self.order_type = "Sell"
                   THEN CmpScalar(self.price, other.price)
                   ELSE Reverse(CmpScalar(self.price, other.price))
    IN  IF byPrice = "Equal" THEN Reverse(CmpScalar(self.ts, other.ts)) ELSE byPrice

\* Order::cmp: the side of self chooses the direction of the price comparison.
Cmp(self, other) ==
    LET byPrice == IF self.order_type = "Sell"
                   THEN CmpScalar(self.price, other.price)
                   ELSE Reverse(CmpScalar(self.price, other.price))
    IN  IF byPrice = "Equal" THEN CmpScalar(self.ts, other.ts) ELSE byPrice

----------------------------------------------------------------------------
(* BTreeSet<Rc<Order>> *)

\* The search of a key in a node: the keys are compared in order; Greater goes
\* on, Equal has found the key, Less (or the end) gives the insertion edge.
RECURSIVE SearchFrom(_, _, _)
SearchFrom(key, book, i) ==
    IF i > Len(book) THEN [found |-> FALSE, idx |-> i]
    ELSE LET ord == Cmp(key, book[i])
         IN  IF ord = "Greater" THEN SearchFrom(key, book, i + 1)
             ELSE IF ord = "Equal" THEN [found |-> TRUE, idx |-> i]
             ELSE [found |-> FALSE, idx |-> i]

Search(key, book) == SearchFrom(key, book, 1)

\* BTreeSet::pop_first
PopFirst(book) == IF book = <<>> THEN <<>> ELSE Tail(book)

\* An insert that does not look for the place of the order.
BookInsertAtEnd(book, order) ==
    IF Search(order, book).found THEN book ELSE Append(book, order)

\* BTreeSet::insert: an element that compares Equal to one of the set is not
\* inserted, and the element of the set is kept.
BookInsert(book, order) ==
    LET s == Search(order, book)
    IN  IF s.found THEN book
        ELSE SubSeq(book, 1, s.idx - 1) \o <<order>> \o SubSeq(book, s.idx, Len(book))

\* A removal that takes the first element whatever the key.
BookRemoveHead(book, key) == PopFirst(book)

\* BTreeSet::remove: the element that compares Equal to the key is removed.
BookRemove(book, key) ==
    LET s == Search(key, book)
    IN  IF s.found
        THEN SubSeq(book, 1, s.idx - 1) \o SubSeq(book, s.idx + 1, Len(book))
        ELSE book

----------------------------------------------------------------------------
(* HashMap<Uuid, Rc<Order>> *)

EmptyIndex == [id \in {} |-> 0]

IndexInsert(index, id, order) ==
    [k \in (DOMAIN index) \cup {id} |-> IF k = id THEN order ELSE index[k]]

\* A removal that leaves the index as it is.
IndexKeep(index, id) == index

IndexRemove(index, id) == [k \in (DOMAIN index) \ {id} |-> index[k]]

----------------------------------------------------------------------------
(* OrderBook::process_order *)

\* The guard of the match arm: the incoming order against the popped head.
Crosses(order, counterpart) == order.price <= counterpart.price

\* Ordering::Less: the head with the quantity that is left of it.
NewCounterpart(order, counterpart) ==
    Order(counterpart.order_type, counterpart.id, counterpart.ts,
          counterpart.quantity - order.quantity, counterpart.price)

\* A remainder that keeps the whole quantity of the incoming order.
NewSourceOrderWhole(order, counterpart) ==
    Order(order.order_type, order.id, order.ts, order.quantity, order.price)

\* Ordering::Greater: the incoming order with the quantity that is left of it.
NewSourceOrder(order, counterpart) ==
    Order(order.order_type, order.id, order.ts,
          order.quantity - counterpart.quantity, order.price)

\* A Filled event whose order field carries the traded quantity only.
FilledEventOfConsumed(t, order, counterpart) ==
    Filled(t,
           [order EXCEPT !.quantity = IF order.quantity < counterpart.quantity
                                      THEN order.quantity
                                      ELSE counterpart.quantity],
           counterpart)

\* The Filled event of the three quantity arms: both orders as they were
\* when they met.
FilledEvent(t, order, counterpart) == Filled(t, order, counterpart)

\* Ordering::Less with the reduced head indexed on the incoming's side.
FillLessIntoSourceIndex(t, evs, order, counterpart, counterpart_book, counterpart_index, source_book, source_index) ==
    LET rc == NewCounterpart(order, counterpart)
    IN  [events            |-> Append(evs, FilledEvent(t, order, counterpart)),
         counterpart_book  |-> BookInsert(counterpart_book, rc),
         counterpart_index |-> counterpart_index,
         source_book       |-> source_book,
         source_index      |-> IndexInsert(source_index, rc.id, rc),
         matched_from      |-> << <<counterpart>> \o counterpart_book >>]

\* Ordering::Less, on the counterpart book the head was popped from.
FillLess(t, evs, order, counterpart, counterpart_book, counterpart_index, source_book, source_index) ==
    LET rc == NewCounterpart(order, counterpart)
    IN  [events            |-> Append(evs, FilledEvent(t, order, counterpart)),
         counterpart_book  |-> BookInsert(counterpart_book, rc),
         counterpart_index |-> IndexInsert(counterpart_index, rc.id, rc),
         source_book       |-> source_book,
         source_index      |-> source_index,
         matched_from      |-> << <<counterpart>> \o counterpart_book >>]

\* Ordering::Equal, on the counterpart book the head was popped from.
FillEqual(t, evs, order, counterpart, counterpart_book, counterpart_index, source_book, source_index) ==
    [events            |-> Append(evs, FilledEvent(t, order, counterpart)),
     counterpart_book  |-> counterpart_book,
     counterpart_index |-> counterpart_index,
     source_book       |-> source_book,
     source_index      |-> source_index,
     matched_from      |-> << <<counterpart>> \o counterpart_book >>]

\* The default arm, on the counterpart book after pop_first.
RestOrder(evs, order, counterpart_book, counterpart_index, source_book, source_index) ==
    [events            |-> evs,
     counterpart_book  |-> counterpart_book,
     counterpart_index |-> counterpart_index,
     source_book       |-> BookInsert(source_book, order),
     source_index      |-> IndexInsert(source_index, order.id, order),
     matched_from      |-> <<>>]

RECURSIVE process_order(_, _, _, _, _, _, _)
process_order(t, evs, order, counterpart_book, counterpart_index, source_book, source_index) ==
    LET accepted == Append(evs, Accepted(t, order))
        popped   == PopFirst(counterpart_book)
    IN  IF counterpart_book # <<>> /\ Crosses(order, Head(counterpart_book))
        THEN LET counterpart == Head(counterpart_book)
             IN  IF order.quantity < counterpart.quantity
                 THEN FillLess(t, accepted, order, counterpart, popped,
                               counterpart_index, source_book, source_index)
                 ELSE IF order.quantity > counterpart.quantity
                 THEN LET r == process_order(
                                   t,
                                   Append(accepted, FilledEvent(t, order, counterpart)),
                                   NewSourceOrder(order, counterpart),
                                   BookRemove(popped, order),
                                   IndexRemove(counterpart_index, order.id),
                                   source_book,
                                   source_index)
                      IN  [r EXCEPT !.matched_from = <<counterpart_book>> \o @]
                 ELSE FillEqual(t, accepted, order, counterpart, popped,
                                counterpart_index, source_book, source_index)
        ELSE RestOrder(accepted, order, popped, counterpart_index, source_book,
                       source_index)

\* The state of the book, as the four collections.
Book(sb, si, bb, bi) ==
    [sell_book |-> sb, sell_index |-> si, buy_book |-> bb, buy_index |-> bi]

process_sell_order(t, evs, order, book) ==
    LET r == process_order(t, evs, order, book.buy_book, book.buy_index,
                           book.sell_book, book.sell_index)
    IN  [events |-> r.events,
         matched_from |-> r.matched_from,
         book   |-> Book(r.source_book, r.source_index,
                         r.counterpart_book, r.counterpart_index)]

process_buy_order(t, evs, order, book) ==
    LET r == process_order(t, evs, order, book.sell_book, book.sell_index,
                           book.buy_book, book.buy_index)
    IN  [events |-> r.events,
         matched_from |-> r.matched_from,
         book   |-> Book(r.counterpart_book, r.counterpart_index,
                         r.source_book, r.source_index)]

----------------------------------------------------------------------------
(* Order::sell, Order::buy: the id is fresh *)

OrderSell(t, id, quantity, price) == Order("Sell", id, t, quantity, price)

OrderBuy(t, id, quantity, price) == Order("Buy", id, t, quantity, price)

----------------------------------------------------------------------------
(* OrderBook::process_cancel_order, OrderBook::process_update_order *)

\* A cancellation that treats an unknown id as the bug of an id on both sides.
process_cancel_order_strict(t, id, book) ==
    IF id \in DOMAIN book.sell_index /\ id \notin DOMAIN book.buy_index
    THEN [events |-> <<Canceled(t, book.sell_index[id])>>,
          matched_from |-> <<>>,
          panic  |-> FALSE,
          book   |-> Book(BookRemove(book.sell_book, book.sell_index[id]),
                          IndexRemove(book.sell_index, id),
                          book.buy_book, book.buy_index)]
    ELSE IF id \notin DOMAIN book.sell_index /\ id \in DOMAIN book.buy_index
    THEN [events |-> <<Canceled(t, book.buy_index[id])>>,
          matched_from |-> <<>>,
          panic  |-> FALSE,
          book   |-> Book(book.sell_book, book.sell_index,
                          BookRemove(book.buy_book, book.buy_index[id]),
                          IndexRemove(book.buy_index, id))]
    ELSE [events |-> <<>>, matched_from |-> <<>>, panic |-> TRUE, book |-> book]

process_cancel_order(t, id, book) ==
    IF id \in DOMAIN book.sell_index /\ id \notin DOMAIN book.buy_index
    THEN LET sell_order == book.sell_index[id]
         IN  [events |-> <<Canceled(t, sell_order)>>,
              matched_from |-> <<>>,
              panic  |-> FALSE,
              book   |-> Book(BookRemove(book.sell_book, sell_order),
                              IndexRemove(book.sell_index, id),
                              book.buy_book, book.buy_index)]
    ELSE IF id \notin DOMAIN book.sell_index /\ id \in DOMAIN book.buy_index
    THEN LET buy_order == book.buy_index[id]
         IN  [events |-> <<Canceled(t, buy_order)>>,
              matched_from |-> <<>>,
              panic  |-> FALSE,
              book   |-> Book(book.sell_book, book.sell_index,
                              BookRemove(book.buy_book, buy_order),
                              IndexRemove(book.buy_index, id))]
    ELSE IF id \notin DOMAIN book.sell_index /\ id \notin DOMAIN book.buy_index
    THEN [events |-> <<Rejected(t, id)>>, matched_from |-> <<>>,
          panic |-> FALSE, book |-> book]
    ELSE [events |-> <<>>, matched_from |-> <<>>, panic |-> TRUE, book |-> book]

\* An update that gives the replacing order the id of the replaced one.
process_update_order_keeping_id(t, now, fresh, id, new_quantity, new_price, book) ==
    IF id \in DOMAIN book.sell_index /\ id \notin DOMAIN book.buy_index
    THEN LET c == process_cancel_order(t, id, book)
             r == process_sell_order(t, c.events,
                                     OrderSell(t, id, new_quantity, new_price),
                                     c.book)
         IN  [events |-> r.events, matched_from |-> r.matched_from,
              panic |-> FALSE, book |-> r.book]
    ELSE IF id \notin DOMAIN book.sell_index /\ id \in DOMAIN book.buy_index
    THEN LET c == process_cancel_order(t, id, book)
             r == process_buy_order(t, c.events,
                                    OrderBuy(t, id, new_quantity, new_price),
                                    c.book)
         IN  [events |-> r.events, matched_from |-> r.matched_from,
              panic |-> FALSE, book |-> r.book]
    ELSE IF id \notin DOMAIN book.sell_index /\ id \notin DOMAIN book.buy_index
    THEN [events |-> <<Rejected(now, id)>>, matched_from |-> <<>>,
          panic |-> FALSE, book |-> book]
    ELSE [events |-> <<>>, matched_from |-> <<>>, panic |-> TRUE, book |-> book]

\* now is the value of the second Utc::now(), of the Rejected event.
process_update_order(t, now, fresh, id, new_quantity, new_price, book) ==
    IF id \in DOMAIN book.sell_index /\ id \notin DOMAIN book.buy_index
    THEN LET c == process_cancel_order(t, id, book)
             r == process_sell_order(t, c.events,
                                     OrderSell(t, fresh, new_quantity, new_price),
                                     c.book)
         IN  [events |-> r.events, matched_from |-> r.matched_from,
              panic |-> FALSE, book |-> r.book]
    ELSE IF id \notin DOMAIN book.sell_index /\ id \in DOMAIN book.buy_index
    THEN LET c == process_cancel_order(t, id, book)
             r == process_buy_order(t, c.events,
                                    OrderBuy(t, fresh, new_quantity, new_price),
                                    c.book)
         IN  [events |-> r.events, matched_from |-> r.matched_from,
              panic |-> FALSE, book |-> r.book]
    ELSE IF id \notin DOMAIN book.sell_index /\ id \notin DOMAIN book.buy_index
    THEN [events |-> <<Rejected(now, id)>>, matched_from |-> <<>>,
          panic |-> FALSE, book |-> book]
    ELSE [events |-> <<>>, matched_from |-> <<>>, panic |-> TRUE, book |-> book]

----------------------------------------------------------------------------
(* OrderBook::new and OrderBook::process *)

IdsOf(book) == {book[i].id : i \in DOMAIN book}

\* The order of that id is in the collection of exactly one side.
RestsOnSell(id, sb, bb) == id \in IdsOf(sb) /\ id \notin IdsOf(bb)
RestsOnBuy(id, sb, bb) == id \in IdsOf(bb) /\ id \notin IdsOf(sb)

CurrentBook == Book(sell_book, sell_index, buy_book, buy_index)

NoCommand == [type |-> "None", id |-> 0, quantity |-> 0, price |-> 0, ts |-> 0]

\* Request::new; the callback is named by the number of its call.
Request(c, call) == [command |-> c, callback |-> call]

NoRequest == Request(NoCommand, 0)

\* oneshot::channel(): "none" before the call, then "waiting" while the caller
\* awaits the receiver, "dropped" once the caller has dropped the receiver,
\* "replied" with the events sent, "lost" when events were sent to a dropped
\* receiver, "closed" when the sender was dropped unused.
Callback(state, evs) == [state |-> state, events |-> evs]

NoCallback == Callback("none", <<>>)

Command(type, id, quantity, price, t) ==
    [type |-> type, id |-> id, quantity |-> quantity, price |-> price, ts |-> t]

Init ==
    /\ ts \in Timestamps
    /\ sell_book = <<>>
    /\ sell_index = EmptyIndex
    /\ buy_book = <<>>
    /\ buy_index = EmptyIndex
    /\ next_id = 1
    /\ command = NoCommand
    /\ events = <<>>
    /\ matched_from = <<>>
    /\ panicked = FALSE
    /\ cancelled = <<>>
    /\ queue = <<>>
    /\ request = NoRequest
    /\ actor = "recv"
    /\ callback = [c \in Calls |-> NoCallback]
    /\ rows = <<>>
    /\ committed = {}
    /\ calls = 0
    /\ http_server = "serving"

\* The book and the watermark after a mutating command.
Store(t, book) ==
    /\ ts' = t
    /\ sell_book' = book.sell_book
    /\ sell_index' = book.sell_index
    /\ buy_book' = book.buy_book
    /\ buy_index' = book.buy_index

BuyOf(quantities, prices) ==
    /\ ~panicked
    /\ next_id <= MaxOrders
    /\ \E t \in Timestamps, quantity \in quantities, price \in prices :
          \E r \in {process_buy_order(t, <<>>,
                                     OrderBuy(t, next_id, quantity, price),
                                     CurrentBook)} :
              /\ Store(t, r.book)
              /\ events' = r.events
              /\ matched_from' = r.matched_from
              /\ command' = Command("Buy", next_id, quantity, price, t)
    /\ next_id' = next_id + 1
    /\ UNCHANGED <<panicked, cancelled>>

Buy == BuyOf(Quantities, Prices)

SellOf(quantities, prices) ==
    /\ ~panicked
    /\ next_id <= MaxOrders
    /\ \E t \in Timestamps, quantity \in quantities, price \in prices :
          \E r \in {process_sell_order(t, <<>>,
                                      OrderSell(t, next_id, quantity, price),
                                      CurrentBook)} :
              /\ Store(t, r.book)
              /\ events' = r.events
              /\ matched_from' = r.matched_from
              /\ command' = Command("Sell", next_id, quantity, price, t)
    /\ next_id' = next_id + 1
    /\ UNCHANGED <<panicked, cancelled>>

Sell == SellOf(Quantities, Prices)

Cancel ==
    /\ ~panicked
    /\ \E t \in Timestamps, id \in Ids :
          \E r \in {process_cancel_order(t, id, CurrentBook)} :
              /\ panicked' = r.panic
              /\ IF r.panic
                 THEN UNCHANGED <<ts, sell_book, sell_index, buy_book, buy_index>>
                 ELSE Store(t, r.book)
              /\ events' = r.events
              /\ matched_from' = r.matched_from
              /\ command' = Command("Cancel", id, 0, 0, t)
              /\ cancelled' = IF \/ RestsOnSell(id, sell_book, buy_book)
                                 \/ RestsOnBuy(id, sell_book, buy_book)
                              THEN Append(cancelled, id)
                              ELSE cancelled
    /\ UNCHANGED next_id

UpdateOf(quantities, prices) ==
    /\ ~panicked
    /\ \E t \in Timestamps, id \in Ids, new_quantity \in quantities,
          new_price \in prices :
          LET found == id \in (DOMAIN sell_index) \cup (DOMAIN buy_index)
          IN  /\ found => next_id <= MaxOrders
              /\ \E now \in (IF found THEN {t} ELSE Timestamps) :
                    \E r \in {process_update_order(t, now, next_id, id,
                                                  new_quantity, new_price,
                                                  CurrentBook)} :
                        /\ panicked' = r.panic
                        /\ IF r.panic
                           THEN UNCHANGED <<ts, sell_book, sell_index, buy_book,
                                            buy_index>>
                           ELSE Store(t, r.book)
                        /\ events' = r.events
                        /\ matched_from' = r.matched_from
                        /\ next_id' = IF found /\ ~r.panic THEN next_id + 1
                                      ELSE next_id
              /\ command' = Command("Update", id, new_quantity, new_price, t)
    /\ UNCHANGED cancelled

Update == UpdateOf(Quantities, Prices)

GetState ==
    /\ ~panicked
    /\ events' = <<OrderBookState(buy_book, sell_book)>>
    /\ matched_from' = <<>>
    /\ command' = Command("GetState", 0, 0, 0, 0)
    /\ UNCHANGED <<ts, sell_book, sell_index, buy_book, buy_index, next_id,
                   panicked, cancelled>>

\* OrderBook::process called directly, as the tests of the book do.
Next ==
    \/ Buy /\ UNCHANGED actor_vars
    \/ Sell /\ UNCHANGED actor_vars
    \/ Cancel /\ UNCHANGED actor_vars
    \/ Update /\ UNCHANGED actor_vars
    \/ GetState /\ UNCHANGED actor_vars

Spec == Init /\ [][Next]_vars

\* The commands as the endpoints hand them to process: quantity is any u32
\* and price any Decimal; neither endpoints.rs nor process checks them.
\* Zero stands for the values that are not strictly positive; the sets have
\* as many values as Quantities and Prices.
U32Quantities == 0..(MaxQty - 1)

DecimalPrices == 0..(MaxPrice - 1)

UncheckedNext ==
    \/ BuyOf(U32Quantities, DecimalPrices) /\ UNCHANGED actor_vars
    \/ SellOf(U32Quantities, DecimalPrices) /\ UNCHANGED actor_vars
    \/ Cancel /\ UNCHANGED actor_vars
    \/ UpdateOf(U32Quantities, DecimalPrices) /\ UNCHANGED actor_vars
    \/ GetState /\ UNCHANGED actor_vars

UncheckedSpec == Init /\ [][UncheckedNext]_vars

----------------------------------------------------------------------------
(* database::save_events *)

\* Option<T>: None and Some(x).
None == <<>>
Some(x) == <<x>>

\* The cast u32 as i32, which wraps around above i32::MAX.
AsI32(n) == IF n <= 2147483647 THEN n ELSE (n - 2147483647) - 2147483647 - 2

EventRow(t, event_type, order_id, order_quantity, order_price, counterpart_id, counterpart_quantity, counterpart_price) ==
    [ts |-> t, event_type |-> event_type, order_id |-> order_id,
     order_quantity |-> order_quantity, order_price |-> order_price,
     counterpart_id |-> counterpart_id,
     counterpart_quantity |-> counterpart_quantity,
     counterpart_price |-> counterpart_price]

\* TryFrom<&Event> for EventRow: Ok(row) is <<row>>, Err(()) is <<>>.
try_from(value) ==
    IF value.type = "Filled"
    THEN <<EventRow(value.ts, "fill", value.order.id,
                    Some(AsI32(value.order.quantity)), Some(value.order.price),
                    Some(value.counterpart.id),
                    Some(AsI32(value.counterpart.quantity)),
                    Some(value.counterpart.price))>>
    ELSE IF value.type = "Accepted"
    THEN <<EventRow(value.ts,
                    IF value.order.order_type = "Sell" THEN "sell" ELSE "buy",
                    value.order.id,
                    Some(AsI32(value.order.quantity)), Some(value.order.price),
                    None, None, None)>>
    ELSE IF value.type = "Canceled"
    THEN <<EventRow(value.ts, "cancel", value.order.id,
                    None, None, None, None, None)>>
    ELSE <<>>

\* Rows collected with the last event first.
RECURSIVE RowsNewestFirst(_)
RowsNewestFirst(evs) ==
    IF evs = <<>> THEN <<>>
    ELSE RowsNewestFirst(Tail(evs)) \o try_from(Head(evs))

\* events.iter().filter_map(|e| e.try_into().ok()).collect()
RECURSIVE Rows(_)
Rows(evs) ==
    IF evs = <<>> THEN <<>>
    ELSE try_from(Head(evs)) \o Rows(Tail(evs))

----------------------------------------------------------------------------
(* Client::call and Actor::run *)

\* The commands a caller may send; process mints the id of a new order and
\* samples the timestamp.
Commands ==
    {Command(type, 0, quantity, price, 0) :
        type \in {"Buy", "Sell"}, quantity \in Quantities, price \in Prices}
    \cup {Command("Cancel", id, 0, 0, 0) : id \in Ids}
    \cup {Command("Update", id, quantity, price, 0) :
             id \in Ids, quantity \in Quantities, price \in Prices}
    \cup {Command("GetState", 0, 0, 0, 0)}

\* The command process has just handled is the command c of a request.
SameCommand(done, c) ==
    /\ done.type = c.type
    /\ done.quantity = c.quantity
    /\ done.price = c.price
    /\ c.type \in {"Cancel", "Update"} => done.id = c.id

\* Client::call: a oneshot channel is made and the request is sent; the send
\* completes only while the channel has room.
CallOf(commands) ==
    /\ actor # "panicked"
    /\ calls < MaxCalls
    /\ Len(queue) < ChannelBuffer
    /\ \E c \in commands : queue' = Append(queue, Request(c, calls + 1))
    /\ callback' = [callback EXCEPT ![calls + 1] = Callback("waiting", <<>>)]
    /\ calls' = calls + 1
    /\ UNCHANGED <<book_vars, request, actor, rows, committed, http_server>>

Call == CallOf(Commands)

\* The caller stops waiting: the future of Client::call is dropped, and the
\* receiver of its oneshot channel with it.
DropReceiver ==
    /\ \E c \in Calls :
          /\ callback[c].state = "waiting"
          /\ callback' = [callback EXCEPT ![c] = Callback("dropped", <<>>)]
    /\ UNCHANGED <<book_vars, queue, request, actor, rows, committed,
                   calls, http_server>>

\* A receiver that hands out the newest request of the queue.
RecvNewest ==
    /\ actor = "recv"
    /\ queue # <<>>
    /\ Buy \/ Sell \/ Cancel \/ Update \/ GetState
    /\ SameCommand(command', queue[Len(queue)].command)
    /\ request' = queue[Len(queue)]
    /\ queue' = SubSeq(queue, 1, Len(queue) - 1)
    /\ actor' = IF panicked' THEN "panicked" ELSE "save"
    /\ UNCHANGED <<callback, rows, committed, calls, http_server>>

\* self.receiver.recv() hands out the oldest request and process handles its
\* command.
Recv ==
    /\ actor = "recv"
    /\ queue # <<>>
    /\ Buy \/ Sell \/ Cancel \/ Update \/ GetState
    /\ SameCommand(command', Head(queue).command)
    /\ request' = Head(queue)
    /\ queue' = Tail(queue)
    /\ actor' = IF panicked' THEN "panicked" ELSE "save"
    /\ UNCHANGED <<callback, rows, committed, calls, http_server>>

\* save_events returns Ok(()): the rows of the batch, if any, are in the table.
SaveOk ==
    /\ actor = "save"
    /\ rows' = rows \o Rows(events)
    /\ committed' = committed \cup {request.callback}
    /\ actor' = "send"
    /\ UNCHANGED <<book_vars, queue, request, callback, calls, http_server>>

\* save_events returns Err and nothing is written; the loop goes on with the
\* next request.
SaveErrIgnored ==
    /\ actor = "save"
    /\ Rows(events) # <<>>
    /\ actor' = "recv"
    /\ callback' = [callback EXCEPT ![request.callback] =
                       IF @.state = "waiting" THEN Callback("closed", <<>>) ELSE @]
    /\ UNCHANGED <<book_vars, queue, request, rows, committed, calls,
                   http_server>>

\* save_events returns Err, which only the INSERT can cause, and nothing is
\* written: Actor::run panics. The request in hand and the receiver with the
\* requests still queued are dropped, so no callback of them is ever sent to;
\* the queue is kept to show what was never received.
SaveErr ==
    /\ actor = "save"
    /\ Rows(events) # <<>>
    /\ actor' = "panicked"
    /\ callback' = [c \in Calls |->
                       IF callback[c].state = "waiting" THEN Callback("closed", <<>>)
                       ELSE callback[c]]
    /\ UNCHANGED <<book_vars, queue, request, rows, committed, calls,
                   http_server>>

\* A loop that ends when the receiver of the callback is gone.
ReplyOrStop ==
    /\ actor = "send"
    /\ callback' = [callback EXCEPT ![request.callback] =
                       IF @.state = "waiting" THEN Callback("replied", events)
                       ELSE Callback("lost", <<>>)]
    /\ actor' = IF callback[request.callback].state = "waiting" THEN "recv"
                ELSE "panicked"
    /\ UNCHANGED <<book_vars, queue, request, rows, committed, calls,
                   http_server>>

\* A send that always fails: the batch is discarded and the caller's receiver
\* sees its channel closed.
ReplyDiscarding ==
    /\ actor = "send"
    /\ callback' = [callback EXCEPT ![request.callback] =
                       IF @.state = "waiting" THEN Callback("closed", <<>>)
                       ELSE Callback("lost", <<>>)]
    /\ actor' = "recv"
    /\ UNCHANGED <<book_vars, queue, request, rows, committed, calls,
                   http_server>>

\* A reply that does not wait for save_events.
ReplyUnsaved ==
    /\ actor \in {"save", "send"}
    /\ callback' = [callback EXCEPT ![request.callback] =
                       IF @.state = "waiting" THEN Callback("replied", events)
                       ELSE Callback("lost", <<>>)]
    /\ actor' = "recv"
    /\ UNCHANGED <<book_vars, queue, request, rows, committed, calls,
                   http_server>>

\* request.callback.send(events) in the Ok arm: the caller receives the batch,
\* or the batch is logged and discarded when the receiver is gone.
Reply ==
    /\ actor = "send"
    /\ callback' = [callback EXCEPT ![request.callback] =
                       IF @.state = "waiting" THEN Callback("replied", events)
                       ELSE Callback("lost", <<>>)]
    /\ actor' = "recv"
    /\ UNCHANGED <<book_vars, queue, request, rows, committed, calls,
                   http_server>>

ActorNext == Call \/ DropReceiver \/ Recv \/ SaveOk \/ SaveErr \/ Reply

ActorSpec == Init /\ [][ActorNext]_vars

\* The actor with every save_events returning Ok and the task of Actor::run
\* polled whenever it can go on: a request waiting in the queue is received,
\* a pending save completes and a batch saved is answered.
\* The callers make one command of each kind, with the first id, the least
\* quantity and the least price.
OneOfEachCommand ==
    {c \in Commands : c.id \in {0, 1} /\ c.quantity \in {0, 1} /\ c.price \in {0, 1}}

CommittingNext ==
    CallOf(OneOfEachCommand) \/ DropReceiver \/ Recv \/ SaveOk \/ Reply

FairActorSpec ==
    /\ Init
    /\ [][CommittingNext]_vars
    /\ WF_vars(Recv)
    /\ WF_vars(SaveOk)
    /\ WF_vars(Reply)

-----------------------------------------------------------------------------
(* main: the HTTP server and the actor under one select! *)

\* actor::build with a channel one slot narrower than ChannelBuffer, so that
\* MaxCalls callers can find it full.
NarrowBuffer == ChannelBuffer - 1

\* A handler enters Client::call: the oneshot channel is made and the send
\* begins. The server takes requests only until the shutdown signal.
CallBegin ==
    /\ actor # "panicked"
    /\ http_server = "serving"
    /\ calls < MaxCalls
    /\ callback' = [callback EXCEPT ![calls + 1] = Callback("sending", <<>>)]
    /\ calls' = calls + 1
    /\ UNCHANGED <<book_vars, queue, request, actor, rows, committed, http_server>>

\* A send that completes whether the channel has room or not.
SendUnbounded ==
    \E c \in Calls :
       /\ callback[c].state = "sending"
       /\ actor # "panicked"
       /\ \E cmd \in Commands : queue' = Append(queue, Request(cmd, c))
       /\ callback' = [callback EXCEPT ![c] = Callback("waiting", <<>>)]
       /\ UNCHANGED <<book_vars, request, actor, rows, committed, calls,
                      http_server>>

\* self.sender.send(request).await completes: the caller was suspended while
\* the channel was full, and now the request is at the back of the queue and
\* the caller waits on its receiver. The command is the one the caller came
\* with; nothing reads it before this step.
Send ==
    \E c \in Calls :
       /\ callback[c].state = "sending"
       /\ actor # "panicked"
       /\ Len(queue) < NarrowBuffer
       /\ \E cmd \in Commands : queue' = Append(queue, Request(cmd, c))
       /\ callback' = [callback EXCEPT ![c] = Callback("waiting", <<>>)]
       /\ UNCHANGED <<book_vars, request, actor, rows, committed, calls,
                      http_server>>

\* The future of Client::call is dropped while its send is suspended: the
\* request is dropped with it and never reaches the queue.
DropSend ==
    /\ \E c \in Calls :
          /\ callback[c].state = "sending"
          /\ callback' = [callback EXCEPT ![c] = Callback("abandoned", <<>>)]
    /\ UNCHANGED <<book_vars, queue, request, actor, rows, committed, calls,
                   http_server>>

\* shutdown_signal() completes on SIGTERM or ctrl-c: the graceful shutdown of
\* the server begins.
shutdown_signal ==
    /\ actor # "panicked"
    /\ http_server = "serving"
    /\ http_server' = "draining"
    /\ UNCHANGED <<book_vars, queue, request, actor, callback, rows, committed,
                   calls>>

\* The graceful shutdown ends once no handler is in flight; the http_server
\* branch of select! completes, the future of actor.run() is dropped where it
\* stands, with the receiver and the requests still queued, and main returns.
\* The queue is kept to show what was never received.
main_returns ==
    /\ http_server = "draining"
    /\ actor # "panicked"
    /\ \A c \in Calls : callback[c].state \notin {"sending", "waiting"}
    /\ http_server' = "finished"
    /\ actor' = "dropped"
    /\ UNCHANGED <<book_vars, queue, request, callback, rows, committed, calls>>

MainNext ==
    \/ CallBegin
    \/ Send
    \/ DropSend
    \/ DropReceiver
    \/ Recv
    \/ SaveOk
    \/ SaveErr
    \/ Reply
    \/ shutdown_signal
    \/ main_returns

MainSpec == Init /\ [][MainNext]_vars

----------------------------------------------------------------------------
(* Vocabulary of the properties *)

Range(s) == {s[i] : i \in DOMAIN s}

Min(a, b) == IF a < b THEN a ELSE b

IsOrderCommand(c) == c.type \in {"Buy", "Sell"}

\* The order a Buy or Sell command creates.
Incoming(c) == Order(c.type, c.id, c.ts, c.quantity, c.price)

\* The side opposite to, and the side of, the order of a Buy or Sell command.
Opposite(c, sb, bb) == IF c.type = "Buy" THEN sb ELSE bb
Own(c, sb, bb) == IF c.type = "Buy" THEN bb ELSE sb

\* The crossing test of the specification: the aggressor's price is at least
\* as good as the head's.
DirectionAwareCrosses(order, head) ==
    IF order.order_type = "Buy" THEN order.price >= head.price
    ELSE order.price <= head.price

\* o precedes c in price-time priority on their side.
HigherPriority(o, c) ==
    IF c.order_type = "Sell"
    THEN o.price < c.price \/ (o.price = c.price /\ o.ts < c.ts)
    ELSE o.price > c.price \/ (o.price = c.price /\ o.ts < c.ts)

FilledAt(evs) == {k \in DOMAIN evs : evs[k].type = "Filled"}

RECURSIVE SumCounterpart(_)
SumCounterpart(evs) ==
    IF evs = <<>> THEN 0
    ELSE (IF Head(evs).type = "Filled" THEN Head(evs).counterpart.quantity ELSE 0)
         + SumCounterpart(Tail(evs))

RECURSIVE SumTraded(_)
SumTraded(evs) ==
    IF evs = <<>> THEN 0
    ELSE (IF Head(evs).type = "Filled"
          THEN Min(Head(evs).order.quantity, Head(evs).counterpart.quantity)
          ELSE 0)
         + SumTraded(Tail(evs))

RECURSIVE SumQuantity(_)
SumQuantity(book) ==
    IF book = <<>> THEN 0 ELSE Head(book).quantity + SumQuantity(Tail(book))

RECURSIVE CrossingOrders(_, _)
CrossingOrders(order, book) ==
    IF book = <<>> THEN <<>>
    ELSE (IF DirectionAwareCrosses(order, Head(book)) THEN <<Head(book)>> ELSE <<>>)
         \o CrossingOrders(order, Tail(book))

\* The quantity an index holds under an id (0 if it holds none).
IndexedQuantity(index, id) == IF id \in DOMAIN index THEN index[id].quantity ELSE 0

----------------------------------------------------------------------------
(* C1 *)

\* C1: after every command the book holds no crossing pair: one side is
\* empty or every buy price is strictly lower than every sell price.
NoCrossingPair ==
    \A b \in Range(buy_book), s \in Range(sell_book) : b.price < s.price

(* C2 *)

\* C2: a Buy or Sell command is matched against the head of the opposite side
\* (a Filled event names that head as counterpart) if and only if
\* buy.price >= head.price, resp. sell.price <= head.price.
DirectionAwareCrossingTest ==
    [][ (IsOrderCommand(command') /\ Opposite(command', sell_book, buy_book) # <<>>)
        => LET head == Head(Opposite(command', sell_book, buy_book))
               matched == \E k \in FilledAt(events') :
                             events'[k].counterpart = head
           IN  matched <=> DirectionAwareCrosses(Incoming(command'), head)
      ]_vars

(* C3 *)

\* The place in a batch of its n-th Filled event.
NthFilled(evs, n) ==
    CHOOSE k \in FilledAt(evs) : Cardinality({j \in FilledAt(evs) : j <= k}) = n

\* C3: in every Filled event the counterpart is the order that, immediately
\* before that match, was first in price-time priority in the collection of
\* its side: it rested there and no order resting there had a better price,
\* or the same price and an earlier timestamp.  The collection of the first
\* match is the one the command found, that of a later match holds only
\* orders the match before it left.
PriceTimePriority ==
    [][ /\ Len(matched_from') = Cardinality(FilledAt(events'))
        /\ \A n \in DOMAIN matched_from' :
              LET c == events'[NthFilled(events', n)].counterpart
                  resting == matched_from'[n]
              IN  /\ c \in Range(resting)
                  /\ \A o \in Range(resting) : ~HigherPriority(o, c)
                  /\ n = 1 => resting = (IF c.order_type = "Sell" THEN sell_book
                                         ELSE buy_book)
                  /\ n > 1 => Range(resting)
                                \subseteq Range(matched_from'[n - 1])
                                          \ {events'[NthFilled(events', n - 1)].counterpart}
      ]_vars

\* A match took the earlier of two orders of equal price; the later one rests.
PriceTimePriorityWitness ==
    \E k \in FilledAt(events) :
       LET c == events[k].counterpart
           side == IF c.order_type = "Sell" THEN sell_book ELSE buy_book
       IN  \E o \in Range(side) : o.id # c.id /\ o.price = c.price /\ o.ts > c.ts

(* C4 *)

SideConsistent(book, index) ==
    /\ Len(book) = Cardinality(DOMAIN index)
    /\ \A id \in DOMAIN index : index[id] \in Range(book)
    /\ \A o \in Range(book) : o.id \in DOMAIN index /\ index[o.id] = o

\* C4: after every command the index and the collection of each side hold
\* the same orders, and a GetState snapshot lists the ids of the indices.
IndexMatchesCollection ==
    /\ SideConsistent(sell_book, sell_index)
    /\ SideConsistent(buy_book, buy_index)
    /\ command.type = "GetState"
       => /\ IdsOf(events[1].state.sell) = DOMAIN sell_index
          /\ IdsOf(events[1].state.buy) = DOMAIN buy_index

(* C5 *)

\* C5: no id is in both indices, and process never takes the panic branch.
NoIdOnBothSides ==
    /\ (DOMAIN sell_index) \cap (DOMAIN buy_index) = {}
    /\ ~panicked

\* A Cancel has looked an id up while both indices hold orders.
NoIdOnBothSidesWitness ==
    /\ command.type \in {"Cancel", "Update"}
    /\ events[1].type = "Canceled"
    /\ DOMAIN sell_index # {}
    /\ DOMAIN buy_index # {}

(* C6 *)

\* C6: for a Buy or Sell command, the counterpart quantities of the Filled
\* events (each the amount consumed from the counterpart) plus the quantity
\* of the incoming order left in the book under its id equal the quantity of
\* the command.
QuantityConservedByCounterparts ==
    IsOrderCommand(command)
    => SumCounterpart(events)
       + IndexedQuantity(Own(command, sell_index, buy_index), command.id)
       = command.quantity

\* C6, amended: the counterpart of a Filled event is recorded with its
\* quantity before the match, and what is conserved is the traded quantity:
\* the smaller of the two recorded quantities, summed over the Filled events,
\* plus the quantity of the incoming order left in the book under its id.
QuantityConservedByTrades ==
    IsOrderCommand(command)
    => SumTraded(events)
       + IndexedQuantity(Own(command, sell_index, buy_index), command.id)
       = command.quantity

\* An incoming order was absorbed by a larger head.
QuantityConservedWitness ==
    /\ IsOrderCommand(command)
    /\ \E k \in FilledAt(events) :
          events[k].counterpart.quantity > events[k].order.quantity

(* C7 *)

Sorted(book, type) ==
    \A i, j \in DOMAIN book :
       i < j => /\ IF type = "Sell" THEN book[i].price <= book[j].price
                   ELSE book[i].price >= book[j].price
                /\ book[i].price = book[j].price => book[i].ts <= book[j].ts

\* C7: each side collection and each sequence of a GetState snapshot is in
\* priority order: sells by ascending price, buys by descending price, equal
\* prices by ascending timestamp.
InPriorityOrder ==
    /\ Sorted(sell_book, "Sell")
    /\ Sorted(buy_book, "Buy")
    /\ command.type = "GetState"
       => /\ Sorted(events[1].state.sell, "Sell")
          /\ Sorted(events[1].state.buy, "Buy")

\* A snapshot of a side with two orders of equal price and different
\* timestamps.
InPriorityOrderWitness ==
    /\ command.type = "GetState"
    /\ \E type \in {"buy", "sell"} :
          LET side == IF type = "buy" THEN events[1].state.buy
                      ELSE events[1].state.sell
          IN  /\ Len(side) >= 2
              /\ side[1].price = side[2].price
              /\ side[1].ts < side[2].ts

(* C8 *)

\* C8: when a Buy or Sell command crosses the head of the opposite side with
\* a smaller quantity, the head stays first on its side with its quantity
\* reduced by the incoming's, the incoming order rests on neither side, and
\* the batch is the Accepted event of the incoming order followed by the
\* Filled event of the incoming order and the head.
SmallerIncomingReducesHead ==
    [][ ( /\ IsOrderCommand(command')
          /\ Opposite(command', sell_book, buy_book) # <<>>
          /\ DirectionAwareCrosses(Incoming(command'),
                                   Head(Opposite(command', sell_book, buy_book)))
          /\ command'.quantity
               < Head(Opposite(command', sell_book, buy_book)).quantity )
        => LET incoming == Incoming(command')
               head == Head(Opposite(command', sell_book, buy_book))
               reduced == [head EXCEPT !.quantity = head.quantity - incoming.quantity]
               opposite == Opposite(command', sell_book', buy_book')
               index == Opposite(command', sell_index', buy_index')
           IN  /\ opposite # <<>>
               /\ Head(opposite) = reduced
               /\ head.id \in DOMAIN index
               /\ index[head.id] = reduced
               /\ incoming.id \notin IdsOf(sell_book') \cup IdsOf(buy_book')
               /\ incoming.id \notin (DOMAIN sell_index') \cup (DOMAIN buy_index')
               /\ events' = <<Accepted(command'.ts, incoming),
                              Filled(command'.ts, incoming, head)>>
      ]_vars

(* C9 *)

\* C9: when a Buy or Sell command crosses the head of the opposite side and
\* its quantity exceeds the quantity of all the resting orders it crosses,
\* the batch has Filled events, each with the incoming's id as order and a
\* resting order, gone from its side afterwards, as counterpart; the batch
\* ends with the Accepted event of the remainder (the incoming order with its
\* quantity less the consumed quantity), and the remainder rests on the
\* incoming's side.
LargerIncomingLeavesRemainder ==
    [][ ( /\ IsOrderCommand(command')
          /\ Opposite(command', sell_book, buy_book) # <<>>
          /\ DirectionAwareCrosses(Incoming(command'),
                                   Head(Opposite(command', sell_book, buy_book)))
          /\ command'.quantity
               > SumQuantity(CrossingOrders(Incoming(command'),
                                            Opposite(command', sell_book, buy_book))) )
        => LET incoming == Incoming(command')
               remainder == [incoming EXCEPT
                               !.quantity = incoming.quantity - SumCounterpart(events')]
               own == Own(command', sell_book', buy_book')
               index == Own(command', sell_index', buy_index')
           IN  /\ FilledAt(events') # {}
               /\ \A k \in FilledAt(events') :
                     /\ events'[k].order.id = incoming.id
                     /\ events'[k].counterpart
                          \in Range(Opposite(command', sell_book, buy_book))
                     /\ events'[k].counterpart.id
                          \notin IdsOf(Opposite(command', sell_book', buy_book'))
               /\ events'[Len(events')] = Accepted(command'.ts, remainder)
               /\ remainder \in Range(own)
               /\ incoming.id \in DOMAIN index
               /\ index[incoming.id] = remainder
      ]_vars

(* C10 *)

\* The Filled events of the Greater arm: another event follows them.
FilledWithRemainderAt(evs) == {k \in FilledAt(evs) : k < Len(evs)}

AcceptedAt(evs) == {k \in DOMAIN evs : evs[k].type = "Accepted"}

\* The events of inserting an order: the batch of a Buy or Sell command, and
\* the batch of an Update command after its Canceled event.
InsertionEvents(c, evs) ==
    IF IsOrderCommand(c) THEN evs
    ELSE IF c.type = "Update" /\ evs # <<>> /\ evs[1].type = "Canceled" THEN Tail(evs)
    ELSE <<>>

\* C11: the events of inserting an order start with the Accepted event of the
\* original order; every further Accepted event carries a remainder that
\* rests in the book afterwards; there are at most two Accepted events, and
\* exactly one when the order is completely filled after several matches.
AcceptedOnlyForOriginalAndRestingRemainder ==
    LET evs == InsertionEvents(command, events)
    IN  evs # <<>> =>
           /\ evs[1].type = "Accepted"
           /\ evs[1].ts = command.ts
           /\ evs[1].order.ts = command.ts
           /\ evs[1].order.quantity = command.quantity
           /\ evs[1].order.price = command.price
           /\ IsOrderCommand(command) => evs[1].order = Incoming(command)
           /\ \A k \in AcceptedAt(evs) \ {1} :
                 evs[k].order \in Range(sell_book) \cup Range(buy_book)
           /\ Cardinality(AcceptedAt(evs)) <= 2
           /\ ( /\ Cardinality(FilledAt(evs)) >= 2
                /\ evs[1].order.id \notin (DOMAIN sell_index) \cup (DOMAIN buy_index) )
              => Cardinality(AcceptedAt(evs)) = 1

(* C12 *)

\* C12: when the opposite side is empty, or the incoming order of a Buy or
\* Sell command does not cross its head, the batch is the Accepted event of
\* the incoming order alone, the incoming order is in the collection and the
\* index of its side, and the collection and the index of the opposite side
\* are unchanged.
NonCrossingOrderOnlyRests ==
    [][ ( /\ IsOrderCommand(command')
          /\ \/ Opposite(command', sell_book, buy_book) = <<>>
             \/ ~DirectionAwareCrosses(Incoming(command'),
                                       Head(Opposite(command', sell_book, buy_book))) )
        => LET incoming == Incoming(command')
               index == Own(command', sell_index', buy_index')
           IN  /\ events' = <<Accepted(command'.ts, incoming)>>
               /\ incoming \in Range(Own(command', sell_book', buy_book'))
               /\ incoming.id \in DOMAIN index
               /\ index[incoming.id] = incoming
               /\ Opposite(command', sell_book', buy_book')
                    = Opposite(command', sell_book, buy_book)
               /\ Opposite(command', sell_index', buy_index')
                    = Opposite(command', sell_index, buy_index)
      ]_vars

(* C13 *)

\* The order of that id as the collection holds it.
RestingOrder(id, book) == CHOOSE o \in Range(book) : o.id = id

\* The collection without the orders of that id, the others in their order.
Without(book, id) == SelectSeq(book, LAMBDA o : o.id # id)

\* C13: a Cancel command for the id of an order resting on exactly one side
\* emits one event, Canceled with the order as it rests; afterwards the
\* collection and the index of that side are the ones before without that
\* order, and the collection and the index of the other side are unchanged.
CancelRemovesRestingOrder ==
    [][ command'.type = "Cancel" =>
          /\ RestsOnSell(command'.id, sell_book, buy_book) =>
                /\ events' = <<Canceled(command'.ts,
                                        RestingOrder(command'.id, sell_book))>>
                /\ sell_book' = Without(sell_book, command'.id)
                /\ Len(sell_book') = Len(sell_book) - 1
                /\ sell_index' = IndexRemove(sell_index, command'.id)
                /\ command'.id \in DOMAIN sell_index
                /\ UNCHANGED <<buy_book, buy_index>>
          /\ RestsOnBuy(command'.id, sell_book, buy_book) =>
                /\ events' = <<Canceled(command'.ts,
                                        RestingOrder(command'.id, buy_book))>>
                /\ buy_book' = Without(buy_book, command'.id)
                /\ Len(buy_book') = Len(buy_book) - 1
                /\ buy_index' = IndexRemove(buy_index, command'.id)
                /\ command'.id \in DOMAIN buy_index
                /\ UNCHANGED <<sell_book, sell_index>>
      ]_vars

\* Of two buy orders resting with different priority, the second has been
\* cancelled and the first is still the buy side.
CancelRemovesRestingOrderWitness ==
    /\ command.type = "Cancel"
    /\ command.id = 2
    /\ next_id = 3
    /\ Len(events) = 1
    /\ events[1].type = "Canceled"
    /\ events[1].order.id = 2
    /\ events[1].order.order_type = "Buy"
    /\ Len(buy_book) = 1
    /\ buy_book[1].id = 1
    /\ Cmp(events[1].order, buy_book[1]) = "Greater"
    /\ sell_book = <<>>

(* C14 *)

InNeitherIndex(id, si, bi) == id \notin (DOMAIN si) \cup (DOMAIN bi)

\* C14: a Cancel or Update command for an id that is in neither index emits
\* one event, Rejected for that id, does not panic, and leaves both
\* collections and both indices unchanged.
UnknownIdIsRejected ==
    [][ ( /\ command'.type \in {"Cancel", "Update"}
          /\ InNeitherIndex(command'.id, sell_index, buy_index) )
        => /\ Len(events') = 1
           /\ events'[1].type = "Rejected"
           /\ events'[1].reason = command'.id
           /\ ~panicked'
           /\ UNCHANGED <<sell_book, sell_index, buy_book, buy_index>>
      ]_vars

\* A Cancel command for an id never issued has been rejected while an order
\* rests in the book.
UnknownIdIsRejectedWitness ==
    /\ command.type = "Cancel"
    /\ command.id >= next_id
    /\ Len(events) = 1
    /\ events[1].type = "Rejected"
    /\ sell_book # <<>>
    /\ ~panicked

(* C15 *)

\* C15: of two Cancel commands for the id of an order resting in the book,
\* whatever commands come between them, the first emits Canceled and every
\* later one emits one Rejected event and leaves both collections and both
\* indices as they were before it.
CancelIsIdempotent ==
    [][ command'.type = "Cancel" =>
          /\ ( \/ RestsOnSell(command'.id, sell_book, buy_book)
               \/ RestsOnBuy(command'.id, sell_book, buy_book) )
             => /\ Len(events') = 1
                /\ events'[1].type = "Canceled"
                /\ events'[1].order.id = command'.id
                /\ cancelled' = Append(cancelled, command'.id)
          /\ command'.id \in Range(cancelled)
             => /\ events' = <<Rejected(command'.ts, command'.id)>>
                /\ UNCHANGED <<sell_book, sell_index, buy_book, buy_index,
                               cancelled>>
      ]_vars

\* Order 1 was cancelled, then order 2, and a further Cancel command for
\* order 1 has been rejected while a third order rests.
CancelIsIdempotentWitness ==
    /\ cancelled = <<1, 2>>
    /\ command.type = "Cancel"
    /\ command.id = 1
    /\ Len(events) = 1
    /\ events[1].type = "Rejected"
    /\ sell_book \o buy_book # <<>>

(* C16 *)

\* The book a Sell or Buy command would leave, and the batch it would emit,
\* for that order arriving at the book without the order of id old.
SellAfterRemoval(t, order, old) ==
    process_sell_order(t, <<>>, order,
                       Book(Without(sell_book, old), IndexRemove(sell_index, old),
                            buy_book, buy_index))

BuyAfterRemoval(t, order, old) ==
    process_buy_order(t, <<>>, order,
                      Book(sell_book, sell_index,
                           Without(buy_book, old), IndexRemove(buy_index, old)))

IdNowhere(id, sb, si, bb, bi) ==
    id \notin IdsOf(sb) \cup IdsOf(bb) \cup (DOMAIN si) \cup (DOMAIN bi)

\* C16: an Update command for the id of a resting order emits the Canceled
\* event of that order and then the events of inserting, with full matching,
\* an order of a new id with the command's timestamp, quantity and price on
\* the same side; afterwards the old id is in no collection and no index.
UpdateCancelsThenInserts ==
    [][ command'.type = "Update" =>
          /\ RestsOnSell(command'.id, sell_book, buy_book) =>
                LET fresh == Order("Sell", next_id, command'.ts,
                                   command'.quantity, command'.price)
                    r == SellAfterRemoval(command'.ts, fresh, command'.id)
                IN  /\ events'[1] = Canceled(command'.ts,
                                             RestingOrder(command'.id, sell_book))
                    /\ events'[2] = Accepted(command'.ts, fresh)
                    /\ Tail(events') = r.events
                    /\ fresh.id # command'.id
                    /\ Book(sell_book', sell_index', buy_book', buy_index') = r.book
                    /\ IdNowhere(command'.id, sell_book', sell_index',
                                 buy_book', buy_index')
          /\ RestsOnBuy(command'.id, sell_book, buy_book) =>
                LET fresh == Order("Buy", next_id, command'.ts,
                                   command'.quantity, command'.price)
                    r == BuyAfterRemoval(command'.ts, fresh, command'.id)
                IN  /\ events'[1] = Canceled(command'.ts,
                                             RestingOrder(command'.id, buy_book))
                    /\ events'[2] = Accepted(command'.ts, fresh)
                    /\ Tail(events') = r.events
                    /\ fresh.id # command'.id
                    /\ Book(sell_book', sell_index', buy_book', buy_index') = r.book
                    /\ IdNowhere(command'.id, sell_book', sell_index',
                                 buy_book', buy_index')
      ]_vars

\* The first order, resting, has been replaced through an Update command by
\* order 2 at another price, which rests in its place.
UpdateCancelsThenInsertsWitness ==
    /\ command.type = "Update"
    /\ command.id = 1
    /\ next_id = 3
    /\ Len(events) = 2
    /\ events[1].type = "Canceled"
    /\ events[1].order.id = 1
    /\ events[2].type = "Accepted"
    /\ events[2].order.id = 2
    /\ events[2].order.price # events[1].order.price
    /\ events[2].order \in Range(sell_book) \cup Range(buy_book)
    /\ IdNowhere(1, sell_book, sell_index, buy_book, buy_index)

(* C17 *)

\* C17: a GetState command emits one event, State, whose buy and sell
\* sequences are the buy and sell collections in their priority order, and
\* it leaves both collections, both indices and the watermark ts unchanged.
GetStateOnlyReads ==
    [][ command'.type = "GetState" =>
          /\ Len(events') = 1
          /\ events'[1].type = "State"
          /\ events'[1].state.buy = buy_book
          /\ events'[1].state.sell = sell_book
          /\ Sorted(events'[1].state.buy, "Buy")
          /\ Sorted(events'[1].state.sell, "Sell")
          /\ UNCHANGED <<sell_book, sell_index, buy_book, buy_index, ts>>
      ]_vars

\* A snapshot of a book with orders on both sides.
GetStateOnlyReadsWitness ==
    /\ command.type = "GetState"
    /\ Len(events) = 1
    /\ events[1].type = "State"
    /\ events[1].state.buy # <<>>
    /\ events[1].state.sell # <<>>
    /\ events[1].state.buy = buy_book
    /\ events[1].state.sell = sell_book

(* C18 *)

IsPersisted(e) == e.type \in {"Accepted", "Filled", "Canceled"}

\* The table holds a row of this event: its timestamp, kind and order id.
HasRowOf(e, table) ==
    \E i \in DOMAIN table :
       /\ table[i].ts = e.ts
       /\ table[i].order_id = e.order.id
       /\ table[i].event_type
            = (IF e.type = "Filled" THEN "fill"
               ELSE IF e.type = "Canceled" THEN "cancel"
               ELSE IF e.order.order_type = "Buy" THEN "buy" ELSE "sell")

\* C18: a caller holds the batch of its command only after save_events has
\* returned Ok for that batch; every Accepted, Filled and Canceled event a
\* caller has received has its row in the table.
ReplyOnlyAfterCommit ==
    \A c \in Calls :
       callback[c].state = "replied" =>
          /\ c \in committed
          /\ \A k \in DOMAIN callback[c].events :
                IsPersisted(callback[c].events[k])
                   => HasRowOf(callback[c].events[k], rows)

\* A caller has received a batch with a Filled event.
ReplyOnlyAfterCommitWitness ==
    \E c \in Calls :
       /\ callback[c].state = "replied"
       /\ \E k \in DOMAIN callback[c].events : callback[c].events[k].type = "Filled"
       /\ rows # <<>>

(* C19 *)

\* C19: when save_events fails the actor terminates; from then on no request
\* is taken from the queue, no command is applied to the book, nothing is
\* written, and no caller receives a batch: the caller of the failed command
\* and the callers of the commands still queued never do.
SaveFailureIsFatal ==
    [][ /\ ( /\ actor = "save"
             /\ actor' # "save"
             /\ request.callback \notin committed' )
           => /\ actor' = "panicked"
              /\ rows' = rows
              /\ callback'[request.callback].state # "replied"
        /\ actor = "panicked"
           => /\ actor' = "panicked"
              /\ UNCHANGED <<book_vars, queue, request, rows, committed>>
              /\ \A c \in Calls :
                    callback'[c].state = "replied" => callback[c].state = "replied"
              /\ callback[request.callback].state # "replied"
              /\ \A i \in DOMAIN queue :
                    callback[queue[i].callback].state # "replied"
      ]_vars

\* The actor has terminated on a failed save while another request is queued.
SaveFailureIsFatalWitness ==
    /\ actor = "panicked"
    /\ queue # <<>>
    /\ Rows(events) # <<>>
    /\ callback[request.callback].state = "closed"
    /\ callback[queue[1].callback].state = "closed"

(* C20 *)

Persisted(evs) == SelectSeq(evs, IsPersisted)

\* The row records this event, column by column.
RowRecords(row, e) ==
    /\ row.ts = e.ts
    /\ row.order_id = e.order.id
    /\ e.type = "Accepted" =>
          /\ row.event_type = (IF e.order.order_type = "Buy" THEN "buy" ELSE "sell")
          /\ row.order_quantity = <<e.order.quantity>>
          /\ row.order_price = <<e.order.price>>
          /\ row.counterpart_id = <<>>
          /\ row.counterpart_quantity = <<>>
          /\ row.counterpart_price = <<>>
    /\ e.type = "Filled" =>
          /\ row.event_type = "fill"
          /\ row.order_quantity = <<e.order.quantity>>
          /\ row.order_price = <<e.order.price>>
          /\ row.counterpart_id = <<e.counterpart.id>>
          /\ row.counterpart_quantity = <<e.counterpart.quantity>>
          /\ row.counterpart_price = <<e.counterpart.price>>
    /\ e.type = "Canceled" =>
          /\ row.event_type = "cancel"
          /\ row.order_quantity = <<>>
          /\ row.order_price = <<>>
          /\ row.counterpart_id = <<>>
          /\ row.counterpart_quantity = <<>>
          /\ row.counterpart_price = <<>>

\* C20: the rows a successful save_events adds to the table are the Accepted,
\* Filled and Canceled events of the batch, one row each, in batch order;
\* State and Rejected events add no row; a batch of such events alone cannot
\* fail to be saved, writes nothing and is sent to the caller like any other.
RowsAreThePersistedEvents ==
    [][ /\ ( actor = "save" /\ actor' = "send" )
           => LET written == SubSeq(rows', Len(rows) + 1, Len(rows'))
              IN  /\ SubSeq(rows', 1, Len(rows)) = rows
                  /\ Len(written) = Len(Persisted(events))
                  /\ \A k \in DOMAIN written :
                        RowRecords(written[k], Persisted(events)[k])
        /\ ( actor = "save" /\ actor' # "save" /\ Persisted(events) = <<>> )
           => actor' = "send" /\ rows' = rows
        /\ ( actor = "send" /\ actor' # "send" )
           => /\ rows' = rows
              /\ callback[request.callback].state = "waiting"
                    => callback'[request.callback] = Callback("replied", events)
      ]_vars

\* A batch of an Accepted and a Filled event has been saved after the batch
\* of one Accepted event.
RowsAreThePersistedEventsWitness ==
    /\ actor = "send"
    /\ Len(events) = 2
    /\ events[2].type = "Filled"
    /\ Len(rows) = 3
    /\ rows[3].event_type = "fill"

(* C26 *)

\* The order of that id in a collection that holds it.
OrderOf(id, sb, bb) ==
    IF id \in IdsOf(sb) THEN RestingOrder(id, sb) ELSE RestingOrder(id, bb)

\* C26: an order that is in a side collection before a command and in none
\* after it is, in the batch of that command, the counterpart of a Filled
\* event or the order of a Canceled event; an order that stays differs from
\* what it was only by a smaller quantity, and then it is the counterpart of
\* a Filled event of the batch.
OrdersLeaveOnlyWithEvent ==
    [][ \A o \in Range(sell_book) \cup Range(buy_book) :
           IF o.id \notin IdsOf(sell_book') \cup IdsOf(buy_book')
           THEN \E k \in DOMAIN events' :
                   \/ events'[k].type = "Filled" /\ events'[k].counterpart.id = o.id
                   \/ events'[k].type = "Canceled" /\ events'[k].order.id = o.id
           ELSE LET n == OrderOf(o.id, sell_book', buy_book')
                IN  n # o =>
                       /\ n = [o EXCEPT !.quantity = n.quantity]
                       /\ n.quantity < o.quantity
                       /\ \E k \in FilledAt(events') : events'[k].counterpart = o
      ]_vars

(* C27 *)

\* C27: orders of one side with the same price and timestamp are kept apart
\* by the collection. An incoming order that finds the opposite side empty
\* is in the collection of its side afterwards, next to every order that was
\* there; a Cancel command takes no order of another id out of a collection.
EqualPriceAndTimeKeptApart ==
    [][ /\ ( IsOrderCommand(command') /\ Opposite(command', sell_book, buy_book) = <<>> )
           => /\ Incoming(command') \in Range(Own(command', sell_book', buy_book'))
              /\ Range(Own(command', sell_book, buy_book))
                    \subseteq Range(Own(command', sell_book', buy_book'))
              /\ Len(Own(command', sell_book', buy_book'))
                    = Len(Own(command', sell_book, buy_book)) + 1
        /\ command'.type = "Cancel"
           => \A o \in Range(sell_book) \cup Range(buy_book) :
                 o.id # command'.id => o \in Range(sell_book') \cup Range(buy_book')
      ]_vars

(* C28 *)

\* The ids of the resting orders the last command has consumed entirely: the
\* counterparts of its Filled events whose incoming quantity was not smaller.
ConsumedBy(evs) ==
    {evs[k].counterpart.id :
        k \in {j \in FilledAt(evs) : evs[j].order.quantity >= evs[j].counterpart.quantity}}

\* C28: the id of a resting order that a match has consumed entirely is
\* terminal; in particular a Cancel or Update command for it that follows the
\* match directly emits one Rejected event, and no other, and leaves both
\* collections and both indices unchanged.
ConsumedIdIsTerminal ==
    [][ ( /\ command'.type \in {"Cancel", "Update"}
          /\ command'.id \in ConsumedBy(events) )
        => /\ Len(events') = 1
           /\ events'[1].type = "Rejected"
           /\ UNCHANGED <<sell_book, sell_index, buy_book, buy_index>>
      ]_vars

(* C29 *)

\* The orders an event names.
OrdersNamed(e) ==
    IF e.type = "Filled" THEN {e.order, e.counterpart}
    ELSE IF e.type \in {"Accepted", "Canceled"} THEN {e.order}
    ELSE {}

OrdersOfBatch(evs) == UNION {OrdersNamed(evs[k]) : k \in DOMAIN evs}

StrictlyPositive(o) == o.quantity > 0 /\ o.price > 0

\* C29: after a Buy, Sell or Update command with any u32 quantity and any
\* decimal price, every order named in an event of the batch (the order the
\* command created included) and every order resting in the book has a
\* strictly positive quantity and a strictly positive price.
QuantityAndPriceStrictlyPositive ==
    command.type \in {"Buy", "Sell", "Update"}
       => \A o \in OrdersOfBatch(events) \cup Range(sell_book) \cup Range(buy_book)
                    \cup Range(sell_index) \cup Range(buy_index) :
             StrictlyPositive(o)

(* C21 *)

\* The rows of the batches the calls 1..n received, in the order of the calls.
RECURSIVE RowsReplied(_)
RowsReplied(n) ==
    IF n = 0 THEN <<>> ELSE RowsReplied(n - 1) \o Rows(callback[n].events)

IsPrefix(s, t) == Len(s) <= Len(t) /\ SubSeq(t, 1, Len(s)) = s

\* C21: with several calls in flight the actor applies one command at a
\* time, the one at the head of the queue, and only after the batch of the
\* one before was saved and answered; calls are applied in the order they
\* were made (so two calls one producer makes one after the other are
\* applied in call order); the book is touched only by the command dequeued;
\* each save appends the rows of the batch just produced, once, so the table
\* is the concatenation of the batches in the order of application.
AppliedInCallOrder ==
    /\ [](\A n \in 1..calls :
            (\A c \in 1..n : callback[c].state = "replied")
               => IsPrefix(RowsReplied(n), rows))
    /\ [][ /\ request' # request
               => /\ actor = "recv"
                  /\ queue # <<>>
                  /\ request' = Head(queue)
                  /\ queue' = Tail(queue)
                  /\ request'.callback = request.callback + 1
                  /\ SameCommand(command', request'.command)
                  /\ request.callback # 0 => request.callback \in committed
           /\ << sell_book, sell_index, buy_book, buy_index, events >>
                 # << sell_book', sell_index', buy_book', buy_index', events' >>
               => request' # request
           /\ rows' # rows
               => /\ rows' = rows \o Rows(events)
                  /\ request.callback \notin committed
                  /\ committed' = committed \cup {request.callback}
         ]_vars

\* The second of two calls has been applied and saved after the first was
\* answered, both with rows, and its caller is still waiting.
AppliedInCallOrderWitness ==
    /\ actor = "send"
    /\ request.callback = 2
    /\ callback[1].state = "replied"
    /\ callback[2].state = "waiting"
    /\ Rows(callback[1].events) # <<>>
    /\ queue = <<>>
    /\ committed = {1, 2}
    /\ Len(rows) > Len(Rows(events))
    /\ Rows(events) # <<>>

(* C23 *)

\* The caller of the request in hand has dropped its receiver.
CallerGone == request.callback # 0 /\ callback[request.callback].state = "dropped"

\* C23: a request whose caller dropped the receiver of its callback is
\* received and its command applied like any other; its batch is saved
\* unless the save fails; sending the batch then fails, the batch is
\* discarded, nothing that was applied or saved is undone, and the actor
\* waits for the next request. A call whose batch was discarded was applied
\* and saved.
DroppedCallIsAppliedAndSaved ==
    /\ [](\A c \in Calls : callback[c].state = "lost" => c \in committed)
    /\ [][ /\ ( /\ queue # <<>>
                 /\ callback[Head(queue).callback].state = "dropped"
                 /\ queue' # queue
                 /\ Len(queue') < Len(queue) )
               => /\ request' = Head(queue)
                  /\ SameCommand(command', Head(queue).command)
                  /\ actor' = "save"
           /\ (CallerGone /\ actor = "save" /\ actor' = "send")
               => /\ rows' = rows \o Rows(events)
                  /\ committed' = committed \cup {request.callback}
           /\ ( /\ CallerGone
                 /\ actor = "send"
                 /\ callback'[request.callback] # callback[request.callback] )
               => /\ callback' = [callback EXCEPT ![request.callback] =
                                     Callback("lost", <<>>)]
                  /\ actor' = "recv"
                  /\ UNCHANGED <<book_vars, rows, committed, queue>>
         ]_vars

\* The batch of the first call was discarded, with rows in the table, and
\* the command of the second call has been applied, saved and answered.
DroppedCallWitness ==
    /\ callback[1].state = "lost"
    /\ rows # <<>>
    /\ callback[2].state = "replied"
    /\ callback[2].events # <<>>

(* C24 *)

\* C24: with the actor scheduled fairly and every save succeeding, every
\* command whose send completed is eventually applied and saved; a caller
\* that keeps waiting eventually receives a batch; the batch a caller
\* receives is the one process produced for the command of its own request;
\* and a caller receives once: what it received never changes.
EveryCallIsAnswered ==
    /\ \A c \in Calls :
          /\ (callback[c].state = "waiting") ~> (c \in committed)
          /\ (callback[c].state = "waiting")
                ~> (callback[c].state \in {"replied", "dropped", "lost"})
    /\ [][\A c \in Calls :
             /\ (callback'[c].state = "replied" /\ callback[c].state # "replied")
                 => /\ callback[c].state = "waiting"
                    /\ request.callback = c
                    /\ c \in committed
                    /\ SameCommand(command, request.command)
                    /\ callback'[c].events = events
             /\ callback[c].state = "replied" => callback'[c] = callback[c]
          ]_vars

\* Two callers have each received a batch, and not the same one.
EveryCallIsAnsweredWitness ==
    /\ callback[1].state = "replied"
    /\ callback[2].state = "replied"
    /\ callback[1].events # callback[2].events
    /\ callback[1].events # <<>>

(* C22 *)

\* The requests of call c that wait in the queue.
QueuedAt(c) == {k \in DOMAIN queue : queue[k].callback = c}

\* C22: the queue never holds more requests than the channel's buffer; a
\* caller's send completes only in a state where the queue has room, and
\* then its request is the new last element; while the queue is full it
\* does not grow; the queue changes only by a request appended or by its
\* head received into the actor's hands, so nothing queued is dropped or
\* overwritten; and while the process runs, the request of every caller
\* whose send completed and who has no reply yet is either once in the queue
\* or the one the actor has in hand.
QueueBoundedAndLossless ==
    /\ [](Len(queue) <= NarrowBuffer)
    /\ [](actor \notin {"panicked", "dropped"}
            => \A c \in Calls :
                  callback[c].state = "waiting"
                     => \/ Cardinality(QueuedAt(c)) = 1 /\ request.callback # c
                        \/ /\ QueuedAt(c) = {}
                           /\ request.callback = c
                           /\ actor \in {"save", "send"})
    /\ [][ /\ \A c \in Calls :
                 (callback[c].state = "sending" /\ callback'[c].state = "waiting")
                    => /\ Len(queue) < NarrowBuffer
                       /\ Len(queue') = Len(queue) + 1
                       /\ SubSeq(queue', 1, Len(queue)) = queue
                       /\ queue'[Len(queue')].callback = c
           /\ Len(queue) = NarrowBuffer => Len(queue') <= Len(queue)
           /\ queue' # queue
                 => \/ /\ Len(queue') = Len(queue) + 1
                       /\ SubSeq(queue', 1, Len(queue)) = queue
                       /\ callback[queue'[Len(queue')].callback].state = "sending"
                    \/ /\ queue # <<>>
                       /\ queue' = Tail(queue)
                       /\ request' = Head(queue)
         ]_vars

\* The queue is full and a caller is suspended in its send, while the caller
\* of the queued request waits.
QueueFullWitness ==
    /\ Len(queue) = NarrowBuffer
    /\ \E c, d \in Calls :
          /\ callback[c].state = "sending"
          /\ callback[d].state = "waiting"
          /\ QueuedAt(d) # {}

(* C25 *)

\* The calls whose request reached the queue.
Enqueued ==
    {c \in Calls :
        callback[c].state \in {"waiting", "dropped", "replied", "lost", "closed"}}

\* C25: after the shutdown signal no new call begins, and when the process
\* has exited upon it nothing is left in the queue and the command of every
\* request that reached the queue has been applied and its batch saved.
ShutdownDrainsQueue ==
    /\ [][http_server # "serving" => calls' = calls]_vars
    /\ [](http_server = "finished"
            => /\ queue = <<>>
               /\ \A c \in Enqueued : c \in committed)

====
